---- MODULE Spec2Model ----
(***************************************************************************)
(* Model of the audio player root component (src/src/App.tsx, function     *)
(* App) together with the part of the native <audio> element and of the    *)
(* document's fullscreen state that the component's handlers read and      *)
(* write.                                                                  *)
(*                                                                         *)
(* Numbers.  A JavaScript number is modelled as a pair <<n, d>>: the       *)
(* rational n/d in lowest terms when d > 0, and NaN when d = 0.  Times are *)
(* counted in ticks of playback.  The volume is counted in steps of the    *)
(* range input (step="0.01"), so 100 stands for 1.                         *)
(***************************************************************************)
EXTENDS Integers, Sequences, FiniteSets, TLC

\* ------------------------------------------------------------------ bounds
MaxDuration == 1      \* longest media duration, in ticks
MaxBarWidth == 2      \* widest progress bar, in pixels
MaxBarLeft  == 1      \* largest left offset of the progress bar, in pixels
MaxPending  == 1      \* most play() promises awaiting settlement or delivery
MaxScenes   == 2      \* most scenes built during the life of ThreeBackground
MaxConnects == 1      \* most connectAudio calls waiting for resume() at once
MaxAudioFrames == 2   \* most animation frames that change the smoothed levels

\* ------------------------------------------------------- platform constants
MEDIA_ERR_ABORTED           == 1
MEDIA_ERR_NETWORK           == 2
MEDIA_ERR_DECODE            == 3
MEDIA_ERR_SRC_NOT_SUPPORTED == 4
NoErrorObject == 0    \* audio.error is null
OtherErrorCode == 5   \* a code outside the four the switch names
VolumeMax == 100      \* max="1" of the range input, in steps of 0.01
FftSize == 512        \* analyser.fftSize
ByteMax == 255        \* the largest value of a Uint8Array element

null == "null"

\* ----------------------------------------------------------------- numbers
NaN == <<0, 0>>

IsNaN(x) == x[2] = 0

RECURSIVE GCD(_, _)
GCD(a, b) == IF b = 0 THEN a ELSE GCD(b, a % b)

Rat(n, d) ==
  IF d = 0 THEN NaN
  ELSE LET g == GCD(n, d) IN <<n \div g, d \div g>>

Num(n) == <<n, 1>>

RatMul(x, y) ==
  IF IsNaN(x) \/ IsNaN(y) THEN NaN ELSE Rat(x[1] * y[1], x[2] * y[2])

RatAdd(x, y) ==
  IF IsNaN(x) \/ IsNaN(y) THEN NaN
  ELSE LET l == (x[2] \div GCD(x[2], y[2])) * y[2]
       IN Rat(x[1] * (l \div x[2]) + y[1] * (l \div y[2]), l)

\* x < y on numbers; every comparison with NaN is false
RatLess(x, y) ==
  /\ ~IsNaN(x)
  /\ ~IsNaN(y)
  /\ x[1] * y[2] < y[1] * x[2]

RatMin(x, y) == IF RatLess(y, x) THEN y ELSE x

\* Number.isNaN
NumberIsNaN(x) == IsNaN(x)

VARIABLES
  \* React state of App
  isPlaying, currentTime, duration, volume, isFullscreen, audioError, isLoading,
  \* the <audio> element behind audioRef
  elPaused,       \* HTMLMediaElement.paused
  elCurrentTime,  \* HTMLMediaElement.currentTime
  elDuration,     \* HTMLMediaElement.duration
  elVolume,       \* HTMLMediaElement.volume
  elError,        \* HTMLMediaElement.error: NoErrorObject or the error's code
  elReady,        \* "empty", "loading", "metadata" or "failed"
  pendingPlay,    \* play() promises neither resolved nor rejected yet
  rejections,     \* messages of rejected play() promises whose catch has not run yet
  \* the document
  docFullscreen,  \* the container is displayed fullscreen
  \* what the last step was
  op,             \* the handler or platform step taken last
  called,         \* the media controls that step called, in order
  arg             \* the input of that step: <<offset, width>> of a click on the
                  \* progress bar (offset pixels from the bar's left edge), else <<>>

VARIABLES
  \* props and surroundings of ThreeBackground (hook useObsessionScene)
  phase,            \* "rendered" (effects not run yet), "mounted" or "unmounted"
  intensity,        \* the intensity prop
  containerSize,    \* <<width, height>> of containerRef.current's bounding rectangle
  \* refs and state of the hook
  isPlayingRef, pausedRef, rafRef, rendererRef, cameraRef,
  analyserRef, dataArrayRef, ready, isWebGLSupported,
  \* the objects of the scene built last
  sceneGen,         \* how many scenes have been built; the last one has this number
  sceneLive,        \* the last scene's effect has returned its cleanup, not run yet
  rendererSize, composerSize, cameraAspect,
  \* the platform
  rafQueue,         \* pending requestAnimationFrame callbacks: [id, scene]
  canvases,         \* renderer canvases that are children of the container
  resizeListeners,  \* handleResize listeners registered on window
  playListener,     \* connectAudio is registered for the element's play event
  connecting,       \* connectAudio calls suspended at await ctx.resume()
  elementSourced,   \* a MediaElementAudioSourceNode exists for the element
  \* counters and the record of the last step
  renderersCreated, cleanupsRun, sourceCalls, analysersStored,
  smoothAudioRef,   \* the smoothed <<bass, mid, treble>>
  audioFrames,      \* frames so far that changed the smoothed levels
  frame             \* what animate did in the last step, NoFrame if it did not run

appState == <<isPlaying, currentTime, duration, volume, isFullscreen, audioError, isLoading>>

elState == <<elPaused, elCurrentTime, elDuration, elVolume, elError, elReady,
             pendingPlay, rejections>>

\* everything that belongs to ThreeBackground
sceneVars == <<phase, intensity, containerSize,
               isPlayingRef, pausedRef, rafRef, rendererRef, cameraRef,
               analyserRef, dataArrayRef, ready, isWebGLSupported,
               sceneGen, sceneLive, rendererSize, composerSize, cameraAspect,
               rafQueue, canvases, resizeListeners, playListener, connecting,
               elementSourced, renderersCreated, cleanupsRun, sourceCalls,
               analysersStored, smoothAudioRef, audioFrames, frame>>

vars == <<isPlaying, currentTime, duration, volume, isFullscreen, audioError, isLoading,
          elPaused, elCurrentTime, elDuration, elVolume, elError, elReady,
          pendingPlay, rejections, docFullscreen, op, called, arg,
          phase, intensity, containerSize,
          isPlayingRef, pausedRef, rafRef, rendererRef, cameraRef,
          analyserRef, dataArrayRef, ready, isWebGLSupported,
          sceneGen, sceneLive, rendererSize, composerSize, cameraAspect,
          rafQueue, canvases, resizeListeners, playListener, connecting,
          elementSourced, renderersCreated, cleanupsRun, sourceCalls,
          analysersStored, smoothAudioRef, audioFrames, frame>>

\* ------------------------------------------------------------------ inputs
Durations == {Num(n) : n \in 0..MaxDuration} \cup {NaN}

ErrorCodes == {NoErrorObject, MEDIA_ERR_ABORTED, MEDIA_ERR_NETWORK, MEDIA_ERR_DECODE,
               MEDIA_ERR_SRC_NOT_SUPPORTED, OtherErrorCode}

VolumeInputs == {0, 50, VolumeMax}

\* bounding rectangles of the container, <<width, height>>
ContainerSizes == {<<2, 1>>, <<1, 2>>, <<0, 2>>}

\* the element has reached the end of the media while playing
ElementEnded ==
  /\ elReady = "metadata"
  /\ ~IsNaN(elDuration)
  /\ elCurrentTime = elDuration

\* the element is producing sound, or will as soon as data arrives
ElementPlaying == ~elPaused /\ elReady # "failed" /\ ~ElementEnded

\* a renderer, composer or camera that has not been given a size yet
NoSize == <<0, 0>>

\* raw: null, the data of a frame that did not poll the analyser
NoData == <<>>

\* the audioData animate starts every frame with: { bass: 0, mid: 0, treble: 0 }
NoAudio == <<Num(0), Num(0), Num(0)>>

\* the record of a step in which animate did not run
NoFrame == [ran |-> FALSE, scene |-> 0, requested |-> FALSE, polled |-> FALSE,
            data |-> NoData, raw |-> NoAudio, rendered |-> FALSE]

\* ---------------------------------------------------------------- the state
Init ==
  /\ isPlaying = FALSE
  /\ currentTime = Num(0)
  /\ duration = Num(0)
  /\ volume = VolumeMax
  /\ isFullscreen = FALSE
  /\ audioError = null
  /\ isLoading = FALSE
  /\ elPaused = TRUE
  /\ elCurrentTime = Num(0)
  /\ elDuration = NaN
  /\ elVolume = VolumeMax
  /\ elError = NoErrorObject
  /\ elReady = "empty"
  /\ pendingPlay = 0
  /\ rejections = <<>>
  /\ docFullscreen = FALSE
  /\ op = "mount"
  /\ called = <<>>
  /\ arg = <<>>
  /\ phase = "rendered"
  /\ intensity = 1
  /\ containerSize = <<2, 1>>
  /\ isPlayingRef = FALSE
  /\ pausedRef = FALSE
  /\ rafRef = 0
  /\ rendererRef = FALSE
  /\ cameraRef = FALSE
  /\ analyserRef = FALSE
  /\ dataArrayRef = FALSE
  /\ ready = FALSE
  /\ isWebGLSupported = TRUE
  /\ sceneGen = 0
  /\ sceneLive = FALSE
  /\ rendererSize = NoSize
  /\ composerSize = NoSize
  /\ cameraAspect = NaN
  /\ rafQueue = {}
  /\ canvases = 0
  /\ resizeListeners = 0
  /\ playListener = FALSE
  /\ connecting = 0
  /\ elementSourced = FALSE
  /\ renderersCreated = 0
  /\ cleanupsRun = 0
  /\ sourceCalls = 0
  /\ analysersStored = 0
  /\ smoothAudioRef = NoAudio
  /\ audioFrames = 0
  /\ frame = NoFrame


\* ------------------------------------------------- the element's controls
\* audioRef.current: the <audio> element is rendered on every render of App,
\* so the ref is attached whenever a handler runs
audioRefCurrent == TRUE

PlayOutcomes == {"started", "NotAllowedError"}

\* HTMLMediaElement.play(): the promise it returns is rejected at once when
\* the source is unusable or the user agent does not allow playback;
\* otherwise the element leaves the paused state and the promise waits for
\* playback to start.  A play() at the end of the media seeks back to 0.
play(outcome) ==
  IF elError = MEDIA_ERR_SRC_NOT_SUPPORTED
  THEN /\ rejections' = Append(rejections, "NotSupportedError")
       /\ UNCHANGED <<elPaused, elCurrentTime, pendingPlay>>
  ELSE IF outcome = "NotAllowedError"
  THEN /\ rejections' = Append(rejections, "NotAllowedError")
       /\ UNCHANGED <<elPaused, elCurrentTime, pendingPlay>>
  ELSE /\ elPaused' = FALSE
       /\ elCurrentTime' = IF ElementEnded THEN Num(0) ELSE elCurrentTime
       /\ pendingPlay' = pendingPlay + 1
       /\ UNCHANGED rejections

\* HTMLMediaElement.pause(): every play() promise still waiting is rejected
\* with an AbortError
pause ==
  IF elPaused
  THEN UNCHANGED <<elPaused, elCurrentTime, pendingPlay, rejections>>
  ELSE /\ elPaused' = TRUE
       /\ rejections' = rejections \o [i \in 1..pendingPlay |-> "AbortError"]
       /\ pendingPlay' = 0
       /\ UNCHANGED elCurrentTime

\* togglePlay with setIsPlaying(true) in place of setIsPlaying(!isPlaying)
togglePlay_SetsTrue ==
  /\ op' = "togglePlay"
  /\ arg' = <<>>
  /\ UNCHANGED sceneVars
  /\ IF ~audioRefCurrent \/ audioError # null
     THEN /\ called' = <<>>
          /\ UNCHANGED <<appState, elState, docFullscreen>>
     ELSE /\ IF isPlaying
             THEN /\ pause
                  /\ called' = <<"pause">>
             ELSE /\ pendingPlay + Len(rejections) < MaxPending
                  /\ \E outcome \in PlayOutcomes : play(outcome)
                  /\ called' = <<"play">>
          /\ isPlaying' = TRUE
          /\ UNCHANGED <<currentTime, duration, volume, isFullscreen, audioError, isLoading,
                         elDuration, elVolume, elError, elReady, docFullscreen>>

\* togglePlay without the audioError test of its first line
togglePlay_NoErrorGuard ==
  /\ op' = "togglePlay"
  /\ arg' = <<>>
  /\ UNCHANGED sceneVars
  /\ IF ~audioRefCurrent
     THEN /\ called' = <<>>
          /\ UNCHANGED <<appState, elState, docFullscreen>>
     ELSE /\ IF isPlaying
             THEN /\ pause
                  /\ called' = <<"pause">>
             ELSE /\ pendingPlay + Len(rejections) < MaxPending
                  /\ \E outcome \in PlayOutcomes : play(outcome)
                  /\ called' = <<"play">>
          /\ isPlaying' = ~isPlaying
          /\ UNCHANGED <<currentTime, duration, volume, isFullscreen, audioError, isLoading,
                         elDuration, elVolume, elError, elReady, docFullscreen>>

\* --------------------------------------------------------------- handlers
togglePlay ==
  /\ op' = "togglePlay"
  /\ arg' = <<>>
  /\ UNCHANGED sceneVars
  /\ IF ~audioRefCurrent \/ audioError # null
     THEN /\ called' = <<>>
          /\ UNCHANGED <<appState, elState, docFullscreen>>
     ELSE /\ IF isPlaying
             THEN /\ pause
                  /\ called' = <<"pause">>
             ELSE /\ pendingPlay + Len(rejections) < MaxPending
                  /\ \E outcome \in PlayOutcomes : play(outcome)
                  /\ called' = <<"play">>
          /\ isPlaying' = ~isPlaying
          /\ UNCHANGED <<currentTime, duration, volume, isFullscreen, audioError, isLoading,
                         elDuration, elVolume, elError, elReady, docFullscreen>>

\* the catch callback storing e.message without the "Playback failed: " prefix
playRejected_NoPrefix ==
  /\ rejections # <<>>
  /\ op' = "playRejected"
  /\ arg' = <<>>
  /\ UNCHANGED sceneVars
  /\ called' = <<>>
  /\ audioError' = Head(rejections)
  /\ rejections' = Tail(rejections)
  /\ UNCHANGED <<isPlaying, currentTime, duration, volume, isFullscreen, isLoading,
                 elPaused, elCurrentTime, elDuration, elVolume, elError, elReady,
                 pendingPlay, docFullscreen>>

\* the catch callback of togglePlay's play() promise
playRejected ==
  /\ rejections # <<>>
  /\ op' = "playRejected"
  /\ arg' = <<>>
  /\ UNCHANGED sceneVars
  /\ called' = <<>>
  /\ audioError' = "Playback failed: " \o Head(rejections)
  /\ rejections' = Tail(rejections)
  /\ UNCHANGED <<isPlaying, currentTime, duration, volume, isFullscreen, isLoading,
                 elPaused, elCurrentTime, elDuration, elVolume, elError, elReady,
                 pendingPlay, docFullscreen>>

\* playback has started: the element resolves the waiting play() promises;
\* togglePlay attaches no handler to the resolution
playResolved ==
  /\ pendingPlay > 0
  /\ ~elPaused
  /\ elReady = "metadata"
  /\ op' = "playResolved"
  /\ arg' = <<>>
  /\ UNCHANGED sceneVars
  /\ called' = <<>>
  /\ pendingPlay' = 0
  /\ UNCHANGED <<appState, elPaused, elCurrentTime, elDuration, elVolume, elError, elReady,
                 rejections, docFullscreen>>

\* playback moves the element's position forward by one tick, up to the end
playbackAdvance ==
  /\ ElementPlaying
  /\ elReady = "metadata"
  /\ pendingPlay = 0
  /\ RatLess(elCurrentTime, elDuration)
  /\ op' = "playbackAdvance"
  /\ arg' = <<>>
  /\ UNCHANGED sceneVars
  /\ called' = <<>>
  /\ elCurrentTime' = RatMin(RatAdd(elCurrentTime, Num(1)), elDuration)
  /\ UNCHANGED <<appState, elPaused, elDuration, elVolume, elError, elReady,
                 pendingPlay, rejections, docFullscreen>>

handleTimeUpdate ==
  /\ elReady = "metadata"
  /\ op' = "handleTimeUpdate"
  /\ arg' = <<>>
  /\ UNCHANGED sceneVars
  /\ called' = <<>>
  /\ currentTime' = IF audioRefCurrent THEN elCurrentTime ELSE currentTime
  /\ UNCHANGED <<isPlaying, duration, volume, isFullscreen, audioError, isLoading,
                 elState, docFullscreen>>

\* handleLoadedMetadata without the Number.isNaN test
handleLoadedMetadata_NoNaNTest(d) ==
  /\ elReady = "loading"
  /\ op' = "handleLoadedMetadata"
  /\ arg' = <<>>
  /\ UNCHANGED sceneVars
  /\ called' = <<>>
  /\ elReady' = "metadata"
  /\ elDuration' = d
  /\ IF audioRefCurrent
     THEN /\ duration' = d
          /\ isLoading' = FALSE
          /\ audioError' = null
     ELSE UNCHANGED <<duration, isLoading, audioError>>
  /\ UNCHANGED <<isPlaying, currentTime, volume, isFullscreen,
                 elPaused, elCurrentTime, elVolume, elError, pendingPlay, rejections,
                 docFullscreen>>

\* loadedmetadata: the element reports the duration d
handleLoadedMetadata(d) ==
  /\ elReady = "loading"
  /\ op' = "handleLoadedMetadata"
  /\ arg' = <<>>
  /\ UNCHANGED sceneVars
  /\ called' = <<>>
  /\ elReady' = "metadata"
  /\ elDuration' = d
  /\ IF audioRefCurrent /\ ~NumberIsNaN(d)
     THEN /\ duration' = d
          /\ isLoading' = FALSE
          /\ audioError' = null
     ELSE UNCHANGED <<duration, isLoading, audioError>>
  /\ UNCHANGED <<isPlaying, currentTime, volume, isFullscreen,
                 elPaused, elCurrentTime, elVolume, elError, pendingPlay, rejections,
                 docFullscreen>>

\* handleEnded restarting the track: it calls play() after the reset
handleEnded_Replays ==
  /\ ~elPaused
  /\ ElementEnded
  /\ pendingPlay = 0
  /\ op' = "handleEnded"
  /\ arg' = <<>>
  /\ UNCHANGED sceneVars
  /\ called' = <<"play">>
  /\ elPaused' = FALSE
  /\ pendingPlay' = 1
  /\ isPlaying' = FALSE
  /\ currentTime' = Num(0)
  /\ elCurrentTime' = Num(0)
  /\ UNCHANGED <<duration, volume, isFullscreen, audioError, isLoading,
                 elDuration, elVolume, elError, elReady, rejections, docFullscreen>>

\* handleEnded that resets the display and leaves the element at its end
handleEnded_KeepsPosition ==
  /\ ~elPaused
  /\ ElementEnded
  /\ pendingPlay = 0
  /\ op' = "handleEnded"
  /\ arg' = <<>>
  /\ UNCHANGED sceneVars
  /\ called' = <<>>
  /\ elPaused' = TRUE
  /\ isPlaying' = FALSE
  /\ currentTime' = Num(0)
  /\ UNCHANGED elCurrentTime
  /\ UNCHANGED <<duration, volume, isFullscreen, audioError, isLoading,
                 elDuration, elVolume, elError, elReady, pendingPlay, rejections,
                 docFullscreen>>

\* ended: the element has played to the end and has paused itself
handleEnded ==
  /\ ~elPaused
  /\ ElementEnded
  /\ pendingPlay = 0
  /\ op' = "handleEnded"
  /\ arg' = <<>>
  /\ UNCHANGED sceneVars
  /\ called' = <<>>
  /\ elPaused' = TRUE
  /\ isPlaying' = FALSE
  /\ currentTime' = Num(0)
  /\ elCurrentTime' = IF audioRefCurrent THEN Num(0) ELSE elCurrentTime
  /\ UNCHANGED <<duration, volume, isFullscreen, audioError, isLoading,
                 elDuration, elVolume, elError, elReady, pendingPlay, rejections,
                 docFullscreen>>

\* handleLoadStart that does not raise the loading flag
handleLoadStart_KeepsFlag ==
  /\ elReady = "empty"
  /\ op' = "handleLoadStart"
  /\ arg' = <<>>
  /\ UNCHANGED sceneVars
  /\ called' = <<>>
  /\ elReady' = "loading"
  /\ UNCHANGED isLoading
  /\ UNCHANGED <<isPlaying, currentTime, duration, volume, isFullscreen, audioError,
                 elPaused, elCurrentTime, elDuration, elVolume, elError,
                 pendingPlay, rejections, docFullscreen>>

\* handleLoadStart that also takes the error message down
handleLoadStart_ClearsError ==
  /\ elReady = "empty"
  /\ op' = "handleLoadStart"
  /\ arg' = <<>>
  /\ UNCHANGED sceneVars
  /\ called' = <<>>
  /\ elReady' = "loading"
  /\ isLoading' = TRUE
  /\ audioError' = null
  /\ UNCHANGED <<isPlaying, currentTime, duration, volume, isFullscreen,
                 elPaused, elCurrentTime, elDuration, elVolume, elError,
                 pendingPlay, rejections, docFullscreen>>

handleLoadStart ==
  /\ elReady = "empty"
  /\ op' = "handleLoadStart"
  /\ arg' = <<>>
  /\ UNCHANGED sceneVars
  /\ called' = <<>>
  /\ elReady' = "loading"
  /\ isLoading' = TRUE
  /\ UNCHANGED <<isPlaying, currentTime, duration, volume, isFullscreen, audioError,
                 elPaused, elCurrentTime, elDuration, elVolume, elError,
                 pendingPlay, rejections, docFullscreen>>

\* the switch with the messages of the network and decode cases exchanged
errorMsg_Exchanged(code) ==
  IF code = NoErrorObject THEN "Unknown error"
  ELSE CASE code = MEDIA_ERR_ABORTED -> "Audio loading aborted"
         [] code = MEDIA_ERR_NETWORK -> "Audio format not supported"
         [] code = MEDIA_ERR_DECODE -> "Network error - check file path"
         [] code = MEDIA_ERR_SRC_NOT_SUPPORTED -> "Audio source not supported"
         [] OTHER -> "Unknown error"

\* the switch of handleError over audio.error.code
errorMsg(code) ==
  IF code = NoErrorObject THEN "Unknown error"
  ELSE CASE code = MEDIA_ERR_ABORTED -> "Audio loading aborted"
         [] code = MEDIA_ERR_NETWORK -> "Network error - check file path"
         [] code = MEDIA_ERR_DECODE -> "Audio format not supported"
         [] code = MEDIA_ERR_SRC_NOT_SUPPORTED -> "Audio source not supported"
         [] OTHER -> "Unknown error"

\* error: the element has failed with audio.error.code = code (NoErrorObject:
\* the event arrives while audio.error is null).  A source that cannot be
\* used rejects the waiting play() promises.
handleError(code) ==
  /\ elReady \in {"loading", "metadata"}
  /\ op' = "handleError"
  /\ arg' = <<>>
  /\ UNCHANGED sceneVars
  /\ called' = <<>>
  /\ elError' = code
  /\ elReady' = IF code = NoErrorObject THEN elReady ELSE "failed"
  /\ IF code = MEDIA_ERR_SRC_NOT_SUPPORTED
     THEN /\ rejections' = rejections \o [i \in 1..pendingPlay |-> "NotSupportedError"]
          /\ pendingPlay' = 0
     ELSE UNCHANGED <<rejections, pendingPlay>>
  /\ audioError' = errorMsg(code)
  /\ isLoading' = FALSE
  /\ UNCHANGED <<isPlaying, currentTime, duration, volume, isFullscreen,
                 elPaused, elCurrentTime, elDuration, elVolume, docFullscreen>>

\* handleVolumeChange that moves the slider and leaves the element alone
handleVolumeChange_StateOnly(v) ==
  /\ v # volume
  /\ op' = "handleVolumeChange"
  /\ arg' = <<>>
  /\ UNCHANGED sceneVars
  /\ called' = <<>>
  /\ volume' = v
  /\ UNCHANGED elVolume
  /\ UNCHANGED <<isPlaying, currentTime, duration, isFullscreen, audioError, isLoading,
                 elPaused, elCurrentTime, elDuration, elError, elReady,
                 pendingPlay, rejections, docFullscreen>>

\* the range input reports the changed value v / 100
handleVolumeChange(v) ==
  /\ v # volume
  /\ op' = "handleVolumeChange"
  /\ arg' = <<>>
  /\ UNCHANGED sceneVars
  /\ called' = <<>>
  /\ volume' = v
  /\ elVolume' = IF audioRefCurrent THEN v ELSE elVolume
  /\ UNCHANGED <<isPlaying, currentTime, duration, isFullscreen, audioError, isLoading,
                 elPaused, elCurrentTime, elDuration, elError, elReady,
                 pendingPlay, rejections, docFullscreen>>

\* containerRef.current is attached like audioRef.current; granted is the
\* outcome of requestFullscreen()
toggleFullscreen(granted) ==
  /\ op' = "toggleFullscreen"
  /\ arg' = <<>>
  /\ UNCHANGED sceneVars
  /\ called' = <<>>
  /\ IF ~isFullscreen
     THEN /\ docFullscreen' = (docFullscreen \/ granted)
          /\ isFullscreen' = TRUE
     ELSE /\ docFullscreen' = FALSE
          /\ isFullscreen' = FALSE
  /\ UNCHANGED <<isPlaying, currentTime, duration, volume, audioError, isLoading, elState>>

\* the user leaves fullscreen through the browser (Esc); App listens to no
\* fullscreenchange event
browserExitFullscreen ==
  /\ docFullscreen
  /\ op' = "browserExitFullscreen"
  /\ arg' = <<>>
  /\ UNCHANGED sceneVars
  /\ called' = <<>>
  /\ docFullscreen' = FALSE
  /\ UNCHANGED <<appState, elState>>

\* handleProgressBarClick taking clientX / rect.width as the fraction
handleProgressBarClick_NoLeft(clientX, left, width) ==
  /\ op' = "handleProgressBarClick"
  /\ arg' = <<clientX - left, width>>
  /\ UNCHANGED sceneVars
  /\ called' = <<>>
  /\ IF ~audioRefCurrent \/ duration = Num(0)
     THEN UNCHANGED <<currentTime, elCurrentTime>>
     ELSE LET percent == Rat(clientX, width)
              newTime == RatMul(percent, duration)
          IN /\ elCurrentTime' = newTime
             /\ currentTime' = newTime
  /\ UNCHANGED <<isPlaying, duration, volume, isFullscreen, audioError, isLoading,
                 elPaused, elDuration, elVolume, elError, elReady,
                 pendingPlay, rejections, docFullscreen>>

\* handleProgressBarClick that seeks the element and leaves the display
handleProgressBarClick_ElementOnly(clientX, left, width) ==
  /\ op' = "handleProgressBarClick"
  /\ arg' = <<clientX - left, width>>
  /\ UNCHANGED sceneVars
  /\ called' = <<>>
  /\ IF ~audioRefCurrent \/ duration = Num(0)
     THEN UNCHANGED <<currentTime, elCurrentTime>>
     ELSE LET percent == Rat(clientX - left, width)
              newTime == RatMul(percent, duration)
          IN /\ elCurrentTime' = newTime
             /\ UNCHANGED currentTime
  /\ UNCHANGED <<isPlaying, duration, volume, isFullscreen, audioError, isLoading,
                 elPaused, elDuration, elVolume, elError, elReady,
                 pendingPlay, rejections, docFullscreen>>

\* a click at clientX on the progress bar whose rectangle starts at left and
\* is width wide
handleProgressBarClick(clientX, left, width) ==
  /\ op' = "handleProgressBarClick"
  /\ arg' = <<clientX - left, width>>
  /\ UNCHANGED sceneVars
  /\ called' = <<>>
  /\ IF ~audioRefCurrent \/ duration = Num(0)
     THEN UNCHANGED <<currentTime, elCurrentTime>>
     ELSE LET percent == Rat(clientX - left, width)
              newTime == RatMul(percent, duration)
          IN /\ elCurrentTime' = newTime
             /\ currentTime' = newTime
  /\ UNCHANGED <<isPlaying, duration, volume, isFullscreen, audioError, isLoading,
                 elPaused, elDuration, elVolume, elError, elReady,
                 pendingPlay, rejections, docFullscreen>>

\* a dismiss that also clears the play flag
dismissError_ClearsPlaying ==
  /\ audioError # null
  /\ op' = "dismissError"
  /\ arg' = <<>>
  /\ UNCHANGED sceneVars
  /\ called' = <<>>
  /\ audioError' = null
  /\ isPlaying' = FALSE
  /\ UNCHANGED <<currentTime, duration, volume, isFullscreen, isLoading,
                 elState, docFullscreen>>

\* the close button of the error popup, rendered only while audioError is set
dismissError ==
  /\ audioError # null
  /\ op' = "dismissError"
  /\ arg' = <<>>
  /\ UNCHANGED sceneVars
  /\ called' = <<>>
  /\ audioError' = null
  /\ UNCHANGED <<isPlaying, currentTime, duration, volume, isFullscreen, isLoading,
                 elState, docFullscreen>>

\* the play button that is disabled while an error is shown only
PlayButtonDisabled_ErrorOnly == audioError # null

\* the disabled attribute of the play / pause button
PlayButtonDisabled == audioError # null \/ isLoading

\* a click on the play / pause button: a disabled button delivers no click,
\* an enabled one runs togglePlay
playButtonClick ==
  /\ ~PlayButtonDisabled
  /\ togglePlay

\* the media element's events and the user's other actions
EventNext ==
  \/ playRejected
  \/ playResolved
  \/ playbackAdvance
  \/ handleTimeUpdate
  \/ \E d \in Durations : handleLoadedMetadata(d)
  \/ handleEnded
  \/ handleLoadStart
  \/ \E code \in ErrorCodes : handleError(code)
  \/ \E v \in VolumeInputs : handleVolumeChange(v)
  \/ \E granted \in BOOLEAN : toggleFullscreen(granted)
  \/ browserExitFullscreen
  \/ \E left \in 0..MaxBarLeft, width \in 1..MaxBarWidth :
       \E clientX \in left..(left + width) : handleProgressBarClick(clientX, left, width)
  \/ dismissError

Next ==
  \/ playButtonClick
  \/ EventNext

Spec == Init /\ [][Next]_vars

\* the handlers as entry points: togglePlay called in any state, not only by
\* a click on the enabled button
HandlerNext ==
  \/ togglePlay
  \/ EventNext

HandlerSpec == Init /\ [][HandlerNext]_vars

\* ===================================================== ThreeBackground.tsx
\* ------------------------------------------------------------ the analyser
\* analyser.frequencyBinCount, the length of the data array
frequencyBinCount == FftSize \div 2

\* the sum of data.slice(from, to)
RECURSIVE SumBins(_, _, _)
SumBins(data, from, to) ==
  IF from >= to \/ from >= frequencyBinCount THEN 0
  ELSE data[from] + SumBins(data, from + 1, to)

\* what getByteFrequencyData can write into the data array: silence, energy
\* in the lowest eight bins only, and a ramp that differs in every bin
Spectra ==
  { [i \in 0..(frequencyBinCount - 1) |-> 0],
    [i \in 0..(frequencyBinCount - 1) |-> IF i < 8 THEN ByteMax ELSE 0],
    [i \in 0..(frequencyBinCount - 1) |-> i] }

\* analyzeAudio that divides the treble sum by the band's last index
analyzeAudio_DividesByEnd(data) ==
  << Rat(SumBins(data, 0, 8), 8 * ByteMax),
     Rat(SumBins(data, 8, 40), 32 * ByteMax),
     Rat(SumBins(data, 40, 100), 100 * ByteMax) >>

\* the bass, mid and treble levels of one poll of the analyser
analyzeAudio(data) ==
  << Rat(SumBins(data, 0, 8), 8 * ByteMax),
     Rat(SumBins(data, 8, 40), 32 * ByteMax),
     Rat(SumBins(data, 40, 100), 60 * ByteMax) >>

\* ------------------------------------------------------ the animation loop
\* requestAnimationFrame hands out an id that no pending callback holds
FreshId(queue) ==
  CHOOSE i \in 1..(Cardinality(queue) + 2) :
    /\ i # rafRef
    /\ \A cb \in queue : cb.id # i
    /\ \A j \in 1..(i - 1) : j = rafRef \/ \E cb \in queue : cb.id = j

\* cancelAnimationFrame(rafRef.current), skipped while the ref is null
Cancelled(queue) == {cb \in queue : cb.id # rafRef}

\* lerp with its end points exchanged: t * x + (1 - t) * y
lerp_Reversed(x, y, t) == RatAdd(RatMul(t, x), RatMul(Rat(t[2] - t[1], t[2]), y))

\* MathUtils.lerp(x, y, t) = (1 - t) * x + t * y
lerp(x, y, t) == RatAdd(RatMul(Rat(t[2] - t[1], t[2]), x), RatMul(t, y))

\* the smoothed levels after a frame whose raw levels are audioData: bass
\* moves by 0.1, mid by 0.08 and treble by 0.05 of the way
smoothed(smooth, audioData) ==
  << lerp(smooth[1], audioData[1], Rat(10, 100)),
     lerp(smooth[2], audioData[2], Rat(8, 100)),
     lerp(smooth[3], audioData[3], Rat(5, 100)) >>

\* animate that polls the analyser whether or not the track plays
animate_AlwaysPolls(g, queue, paused, playing) ==
  IF paused
  THEN /\ rafQueue' = queue
       /\ frame' = [NoFrame EXCEPT !.ran = TRUE, !.scene = g]
       /\ UNCHANGED <<rafRef, smoothAudioRef, audioFrames>>
  ELSE /\ rafRef' = FreshId(queue)
       /\ rafQueue' = queue \cup {[id |-> FreshId(queue), scene |-> g]}
       /\ LET polled == analyserRef /\ dataArrayRef
          IN \E data \in (IF polled THEN Spectra ELSE {NoData}) :
               LET audioData == IF polled THEN analyzeAudio(data) ELSE NoAudio
                   smooth == smoothed(smoothAudioRef, audioData)
               IN /\ smooth = smoothAudioRef \/ audioFrames < MaxAudioFrames
                  /\ smoothAudioRef' = smooth
                  /\ audioFrames' = IF smooth = smoothAudioRef THEN audioFrames
                                    ELSE audioFrames + 1
                  /\ frame' = [ran |-> TRUE, scene |-> g, requested |-> TRUE,
                               polled |-> polled, data |-> data,
                               raw |-> audioData, rendered |-> TRUE]

\* one run of the animate callback of scene g, with the frame queue, the
\* paused flag and the isPlaying ref as they are when it starts
animate(g, queue, paused, playing) ==
  IF paused
  THEN /\ rafQueue' = queue
       /\ frame' = [NoFrame EXCEPT !.ran = TRUE, !.scene = g]
       /\ UNCHANGED <<rafRef, smoothAudioRef, audioFrames>>
  ELSE /\ rafRef' = FreshId(queue)
       /\ rafQueue' = queue \cup {[id |-> FreshId(queue), scene |-> g]}
       /\ LET polled == playing /\ analyserRef /\ dataArrayRef
          IN \E data \in (IF polled THEN Spectra ELSE {NoData}) :
               LET audioData == IF polled THEN analyzeAudio(data) ELSE NoAudio
                   smooth == smoothed(smoothAudioRef, audioData)
               IN /\ smooth = smoothAudioRef \/ audioFrames < MaxAudioFrames
                  /\ smoothAudioRef' = smooth
                  /\ audioFrames' = IF smooth = smoothAudioRef THEN audioFrames
                                    ELSE audioFrames + 1
                  /\ frame' = [ran |-> TRUE, scene |-> g, requested |-> TRUE,
                               polled |-> polled, data |-> data,
                               raw |-> audioData, rendered |-> TRUE]

\* --------------------------------------------------------- the scene effect
\* handleResize that forgets composer.setSize
handleResize_NoComposer(size, hasRefs) ==
  IF hasRefs /\ size[1] # 0 /\ size[2] # 0
  THEN /\ cameraAspect' = Rat(size[1], size[2])
       /\ rendererSize' = size
       /\ UNCHANGED composerSize
  ELSE UNCHANGED <<cameraAspect, rendererSize, composerSize>>

\* handleResize when the container's bounding rectangle is size, with
\* hasRefs telling whether the container, the renderer and the camera refs
\* are all set
handleResize(size, hasRefs) ==
  IF hasRefs /\ size[1] # 0 /\ size[2] # 0
  THEN /\ cameraAspect' = Rat(size[1], size[2])
       /\ rendererSize' = size
       /\ composerSize' = size
  ELSE UNCHANGED <<cameraAspect, rendererSize, composerSize>>

\* the body of the scene effect, run with the paused flag, the frame queue,
\* the canvas count, the listener count and the isPlaying ref as the
\* cleanup before it (if any) left them
sceneInit(webgl, paused, queue, canv, lis, playing) ==
  /\ pausedRef' = paused
  /\ IF ~webgl \/ containerSize[1] = 0 \/ containerSize[2] = 0
     THEN /\ isWebGLSupported' = (isWebGLSupported /\ webgl)
          /\ sceneLive' = FALSE
          /\ rafQueue' = queue
          /\ canvases' = canv
          /\ resizeListeners' = lis
          /\ frame' = NoFrame
          /\ UNCHANGED <<smoothAudioRef, audioFrames>>
          /\ UNCHANGED <<sceneGen, rendererRef, cameraRef, renderersCreated,
                         cameraAspect, rendererSize, composerSize, ready, rafRef>>
     ELSE /\ sceneGen' = sceneGen + 1
          /\ sceneLive' = TRUE
          /\ cameraRef' = TRUE
          /\ rendererRef' = TRUE
          /\ renderersCreated' = renderersCreated + 1
          /\ canvases' = canv + 1
          /\ handleResize(containerSize, TRUE)
          /\ resizeListeners' = lis + 1
          /\ animate(sceneGen + 1, queue, paused, playing)
          /\ ready' = TRUE
          /\ UNCHANGED isWebGLSupported

\* the passive effects of the first render, in the order the hook declares
\* them: the isPlaying ref, the scene, the play listener
mountEffects(webgl) ==
  /\ phase = "rendered"
  /\ phase' = "mounted"
  /\ op' = "mountEffects"
  /\ called' = <<>>
  /\ arg' = <<>>
  /\ isPlayingRef' = isPlaying
  /\ sceneInit(webgl, pausedRef, rafQueue, canvases, resizeListeners, isPlaying)
  /\ playListener' = audioRefCurrent
  /\ UNCHANGED <<intensity, containerSize, cleanupsRun, analyserRef, dataArrayRef,
                 connecting, elementSourced, sourceCalls, analysersStored>>
  /\ UNCHANGED <<appState, elState, docFullscreen>>

\* a render with another intensity: the scene effect's dependencies changed,
\* so the cleanup of its last run (if that run got as far as returning one)
\* runs and then the effect body runs again
intensityChanged(webgl) ==
  /\ phase = "mounted"
  /\ sceneGen < MaxScenes
  /\ op' = "intensityChanged"
  /\ called' = <<>>
  /\ arg' = <<>>
  /\ intensity' = 3 - intensity
  /\ cleanupsRun' = IF sceneLive THEN cleanupsRun + 1 ELSE cleanupsRun
  /\ IF sceneLive
     THEN sceneInit(webgl, TRUE, Cancelled(rafQueue), canvases - 1,
                    resizeListeners - 1, isPlayingRef)
     ELSE sceneInit(webgl, pausedRef, rafQueue, canvases, resizeListeners,
                    isPlayingRef)
  /\ UNCHANGED <<phase, containerSize, isPlayingRef, playListener, analyserRef,
                 dataArrayRef, connecting, elementSourced, sourceCalls,
                 analysersStored>>
  /\ UNCHANGED <<appState, elState, docFullscreen>>

\* unmount whose scene cleanup neither sets the paused flag nor cancels the
\* pending frame
unmount_KeepsLoop(attached) ==
  /\ phase = "mounted"
  /\ phase' = "unmounted"
  /\ op' = "unmount"
  /\ called' = <<>>
  /\ arg' = <<>>
  /\ IF sceneLive
     THEN /\ UNCHANGED <<pausedRef, rafQueue>>
          /\ resizeListeners' = resizeListeners - 1
          /\ canvases' = IF attached THEN canvases - 1 ELSE canvases
          /\ cleanupsRun' = cleanupsRun + 1
     ELSE UNCHANGED <<pausedRef, rafQueue, resizeListeners, canvases, cleanupsRun>>
  /\ sceneLive' = FALSE
  /\ playListener' = FALSE
  /\ frame' = NoFrame
  /\ UNCHANGED <<smoothAudioRef, audioFrames>>
  /\ UNCHANGED <<intensity, containerSize, isPlayingRef, rafRef, rendererRef,
                 cameraRef, analyserRef, dataArrayRef, ready, isWebGLSupported,
                 sceneGen, rendererSize, composerSize, cameraAspect, connecting,
                 elementSourced, renderersCreated, sourceCalls, analysersStored>>
  /\ UNCHANGED <<appState, elState, docFullscreen>>

\* the component is removed: the cleanups of the scene effect and of the
\* listener effect run.  attached tells whether containerRef.current still
\* holds the container when the scene cleanup runs
unmount(attached) ==
  /\ phase = "mounted"
  /\ phase' = "unmounted"
  /\ op' = "unmount"
  /\ called' = <<>>
  /\ arg' = <<>>
  /\ IF sceneLive
     THEN /\ pausedRef' = TRUE
          /\ rafQueue' = Cancelled(rafQueue)
          /\ resizeListeners' = resizeListeners - 1
          /\ canvases' = IF attached THEN canvases - 1 ELSE canvases
          /\ cleanupsRun' = cleanupsRun + 1
     ELSE UNCHANGED <<pausedRef, rafQueue, resizeListeners, canvases, cleanupsRun>>
  /\ sceneLive' = FALSE
  /\ playListener' = FALSE
  /\ frame' = NoFrame
  /\ UNCHANGED <<smoothAudioRef, audioFrames>>
  /\ UNCHANGED <<intensity, containerSize, isPlayingRef, rafRef, rendererRef,
                 cameraRef, analyserRef, dataArrayRef, ready, isWebGLSupported,
                 sceneGen, rendererSize, composerSize, cameraAspect, connecting,
                 elementSourced, renderersCreated, sourceCalls, analysersStored>>
  /\ UNCHANGED <<appState, elState, docFullscreen>>

\* the browser runs a pending animation frame callback
animateFrame ==
  /\ \E cb \in rafQueue :
       animate(cb.scene, rafQueue \ {cb}, pausedRef, isPlayingRef)
  /\ op' = "animateFrame"
  /\ called' = <<>>
  /\ arg' = <<>>
  /\ UNCHANGED <<phase, intensity, containerSize, isPlayingRef, pausedRef,
                 rendererRef, cameraRef, analyserRef, dataArrayRef, ready,
                 isWebGLSupported, sceneGen, sceneLive, rendererSize,
                 composerSize, cameraAspect, canvases, resizeListeners,
                 playListener, connecting, elementSourced, renderersCreated,
                 cleanupsRun, sourceCalls, analysersStored>>
  /\ UNCHANGED <<appState, elState, docFullscreen>>

\* the window is resized: the layout gives the container the bounding
\* rectangle size, and the resize event is delivered to the registered
\* handleResize
windowResize(size) ==
  /\ phase # "unmounted"
  /\ op' = "windowResize"
  /\ called' = <<>>
  /\ arg' = <<>>
  /\ containerSize' = size
  /\ IF resizeListeners > 0
     THEN handleResize(size, phase = "mounted" /\ rendererRef /\ cameraRef)
     ELSE UNCHANGED <<cameraAspect, rendererSize, composerSize>>
  /\ frame' = NoFrame
  /\ UNCHANGED <<smoothAudioRef, audioFrames>>
  /\ UNCHANGED <<phase, intensity, isPlayingRef, pausedRef, rafRef,
                 rendererRef, cameraRef, analyserRef, dataArrayRef, ready,
                 isWebGLSupported, sceneGen, sceneLive, rafQueue, canvases,
                 resizeListeners, playListener, connecting, elementSourced,
                 renderersCreated, cleanupsRun, sourceCalls, analysersStored>>
  /\ UNCHANGED <<appState, elState, docFullscreen>>

\* the effect with isPlaying among the scene effect's dependencies: every
\* change of the prop tears the scene down and builds it again
syncIsPlaying_Rebuilds ==
  /\ phase = "mounted"
  /\ isPlayingRef # isPlaying
  /\ op' = "syncIsPlaying"
  /\ called' = <<>>
  /\ arg' = <<>>
  /\ isPlayingRef' = isPlaying
  /\ cleanupsRun' = IF sceneLive THEN cleanupsRun + 1 ELSE cleanupsRun
  /\ IF sceneLive
     THEN sceneInit(TRUE, TRUE, Cancelled(rafQueue), canvases - 1,
                    resizeListeners - 1, isPlaying)
     ELSE sceneInit(TRUE, pausedRef, rafQueue, canvases, resizeListeners,
                    isPlaying)
  /\ UNCHANGED <<phase, intensity, containerSize, playListener, analyserRef,
                 dataArrayRef, connecting, elementSourced, sourceCalls,
                 analysersStored>>
  /\ UNCHANGED <<appState, elState, docFullscreen>>

\* the passive effect that copies the isPlaying prop into its ref, run after
\* a render in which the prop changed
syncIsPlaying ==
  /\ phase = "mounted"
  /\ isPlayingRef # isPlaying
  /\ op' = "syncIsPlaying"
  /\ called' = <<>>
  /\ arg' = <<>>
  /\ isPlayingRef' = isPlaying
  /\ frame' = NoFrame
  /\ UNCHANGED <<smoothAudioRef, audioFrames>>
  /\ UNCHANGED <<phase, intensity, containerSize, pausedRef, rafRef,
                 rendererRef, cameraRef, analyserRef, dataArrayRef, ready,
                 isWebGLSupported, sceneGen, sceneLive, rendererSize,
                 composerSize, cameraAspect, rafQueue, canvases,
                 resizeListeners, playListener, connecting, elementSourced,
                 renderersCreated, cleanupsRun, sourceCalls, analysersStored>>
  /\ UNCHANGED <<appState, elState, docFullscreen>>

\* ------------------------------------------------------------ connectAudio
\* The rest of connectAudio once the context runs.  A media element can feed
\* one MediaElementAudioSourceNode only: a second createMediaElementSource
\* for it throws, and the catch logs the error
connectSource ==
  /\ sourceCalls' = sourceCalls + 1
  /\ IF elementSourced
     THEN UNCHANGED <<elementSourced, analyserRef, dataArrayRef, analysersStored>>
     ELSE /\ elementSourced' = TRUE
          /\ analyserRef' = TRUE
          /\ dataArrayRef' = TRUE
          /\ analysersStored' = analysersStored + 1

\* the element fires play after a play() call that started playback
PlayEventDue == op = "togglePlay" /\ called = <<"play">> /\ ~elPaused

ContextOutcomes == {"throws", "suspended", "running"}

\* the play event runs connectAudio up to its first await
audioPlayEvent(ctx) ==
  /\ playListener
  /\ PlayEventDue
  /\ op' = "audioPlayEvent"
  /\ called' = <<>>
  /\ arg' = <<>>
  /\ IF ~audioRefCurrent \/ analyserRef \/ ctx = "throws"
     THEN UNCHANGED <<connecting, sourceCalls, elementSourced, analyserRef,
                      dataArrayRef, analysersStored>>
     ELSE IF ctx = "suspended"
     THEN /\ connecting < MaxConnects
          /\ connecting' = connecting + 1
          /\ UNCHANGED <<sourceCalls, elementSourced, analyserRef,
                         dataArrayRef, analysersStored>>
     ELSE /\ connectSource
          /\ UNCHANGED connecting
  /\ frame' = NoFrame
  /\ UNCHANGED <<smoothAudioRef, audioFrames>>
  /\ UNCHANGED <<phase, intensity, containerSize, isPlayingRef, pausedRef, rafRef,
                 rendererRef, cameraRef, ready, isWebGLSupported, sceneGen,
                 sceneLive, rendererSize, composerSize, cameraAspect, rafQueue,
                 canvases, resizeListeners, playListener, renderersCreated,
                 cleanupsRun>>
  /\ UNCHANGED <<appState, elState, docFullscreen>>

\* ctx.resume() settles and a suspended connectAudio goes on
resumeSettled(resumed) ==
  /\ connecting > 0
  /\ connecting' = connecting - 1
  /\ op' = "resumeSettled"
  /\ called' = <<>>
  /\ arg' = <<>>
  /\ IF resumed
     THEN connectSource
     ELSE UNCHANGED <<sourceCalls, elementSourced, analyserRef, dataArrayRef,
                      analysersStored>>
  /\ frame' = NoFrame
  /\ UNCHANGED <<smoothAudioRef, audioFrames>>
  /\ UNCHANGED <<phase, intensity, containerSize, isPlayingRef, pausedRef, rafRef,
                 rendererRef, cameraRef, ready, isWebGLSupported, sceneGen,
                 sceneLive, rendererSize, composerSize, cameraAspect, rafQueue,
                 canvases, resizeListeners, playListener, renderersCreated,
                 cleanupsRun>>
  /\ UNCHANGED <<appState, elState, docFullscreen>>

\* ------------------------------------------------------------- what is drawn
\* the opacity of the component's container, which holds the canvas and the
\* fallback message
containerOpacity == IF ready /\ isWebGLSupported THEN 1 ELSE 0

\* the fallback message is an element of the container
fallbackRendered == ~isWebGLSupported

\* the user can see the fallback message
fallbackShown == fallbackRendered /\ containerOpacity = 1

\* The life of the scene: the scene effect's runs and cleanups, resizes and
\* frames, and the steps of App that change the isPlaying prop.  The play
\* listener is left out: it reads and writes nothing the scene effect does
SceneNext ==
  \/ \E webgl \in BOOLEAN : mountEffects(webgl)
  \/ \E webgl \in BOOLEAN : intensityChanged(webgl)
  \/ \E attached \in BOOLEAN : unmount(attached)
  \/ animateFrame
  \/ \E size \in ContainerSizes : windowResize(size)
  \/ syncIsPlaying
  \/ playButtonClick
  \/ playRejected
  \/ dismissError

SceneSpec == Init /\ [][SceneNext]_vars

\* The audio path of the scene built at mount: play events, connectAudio and
\* the frames that poll the analyser and smooth its levels
AudioNext ==
  \/ \E webgl \in BOOLEAN : mountEffects(webgl)
  \/ animateFrame
  \/ syncIsPlaying
  \/ \E ctx \in ContextOutcomes : audioPlayEvent(ctx)
  \/ \E resumed \in BOOLEAN : resumeSettled(resumed)
  \/ playButtonClick
  \/ playRejected
  \/ dismissError

AudioSpec == Init /\ [][AudioNext]_vars

\* ================================================================== claims
Calls(c) == \E i \in 1..Len(called) : called[i] = c

CallsNext(c) == \E i \in 1..Len(called') : called'[i] = c

\* C1: a togglePlay invoked while audioError is null calls exactly one media
\* control and inverts the flag: play() and isPlaying = true when the flag
\* was false, pause() and isPlaying = false when it was true.
C1_TogglePlayInverts ==
  [][(op' = "togglePlay" /\ audioError = null) =>
       IF isPlaying
       THEN called' = <<"pause">> /\ isPlaying' = FALSE
       ELSE called' = <<"play">> /\ isPlaying' = TRUE]_vars

\* a togglePlay has paused a playing track
C1_Witness ==
  /\ op = "togglePlay"
  /\ called = <<"pause">>
  /\ ~isPlaying
  /\ audioError = null

\* C2: whenever no rejected play() promise is still waiting for its catch
\* callback, isPlaying is true exactly when the element is not paused or a
\* play() request is pending.
C2_FlagMirrorsElement ==
  rejections = <<>> => (isPlaying <=> (~elPaused \/ pendingPlay > 0))

\* C3: a loadedmetadata event reporting NaN leaves duration, isLoading and
\* audioError as they were; one reporting a number stores it as the
\* duration, clears isLoading and clears audioError.
C3_LoadedMetadata ==
  [][op' = "handleLoadedMetadata" =>
       IF elDuration'[2] = 0
       THEN /\ duration' = duration
            /\ isLoading' = isLoading
            /\ audioError' = audioError
       ELSE /\ duration' = elDuration'
            /\ isLoading' = FALSE
            /\ audioError' = null]_vars

\* a NaN duration has been reported while loading with an error on display
C3_Witness ==
  /\ op = "handleLoadedMetadata"
  /\ elDuration = NaN
  /\ duration = Num(0)
  /\ isLoading
  /\ audioError # null

\* C4: a click at fraction p = (clientX - left) / width of the bar sets the
\* element's and the displayed currentTime to p * duration when duration is
\* not 0 (so a click at half the width seeks to half the duration), and
\* changes nothing when duration is 0.
C4_ProgressBarClick ==
  [][op' = "handleProgressBarClick" =>
       LET offset == arg'[1]
           width == arg'[2]
       IN IF duration[1] = 0
          THEN appState' = appState /\ elState' = elState
          ELSE /\ currentTime' = elCurrentTime'
               /\ currentTime'[2] > 0
               /\ currentTime'[1] * width * duration[2]
                    = offset * duration[1] * currentTime'[2]
               /\ (2 * offset = width =>
                     2 * currentTime'[1] * duration[2] = duration[1] * currentTime'[2])]_vars

\* a click has moved a track of one tick to its middle
C4_Witness ==
  /\ op = "handleProgressBarClick"
  /\ arg = <<1, 2>>
  /\ duration = Num(1)
  /\ currentTime = <<1, 2>>
  /\ elCurrentTime = <<1, 2>>

\* C5: handleError stores the message that belongs to the element's error
\* code, "Unknown error" for any other code or a missing error object, and
\* clears isLoading.
C5_ErrorMessages ==
  [][op' = "handleError" =>
       /\ isLoading' = FALSE
       /\ elError' = 1 => audioError' = "Audio loading aborted"
       /\ elError' = 2 => audioError' = "Network error - check file path"
       /\ elError' = 3 => audioError' = "Audio format not supported"
       /\ elError' = 4 => audioError' = "Audio source not supported"
       /\ elError' \notin 1..4 => audioError' = "Unknown error"]_vars

\* a decode error has ended loading
C5_Witness ==
  /\ op = "handleError"
  /\ elError = MEDIA_ERR_DECODE
  /\ audioError = "Audio format not supported"
  /\ ~isLoading

\* C6: the catch callback of every rejected play() promise sets audioError
\* to "Playback failed: " followed by the rejection's message and leaves
\* isPlaying, currentTime, duration and isLoading as they were.
C6_RejectionCaught ==
  [][op' = "playRejected" =>
       /\ audioError' = "Playback failed: " \o Head(rejections)
       /\ isPlaying' = isPlaying
       /\ currentTime' = currentTime
       /\ duration' = duration
       /\ isLoading' = isLoading]_vars

\* a rejection caused by a later togglePlay (its pause()) has been caught
C6_Witness ==
  /\ op = "playRejected"
  /\ audioError = "Playback failed: AbortError"
  /\ ~isPlaying
  /\ elPaused

\* C7: the togglePlay that follows the dismissal of an error message calls
\* play().
C7_RetryAfterDismiss ==
  [][(op = "dismissError" /\ op' = "togglePlay") => CallsNext("play")]_vars

\* C8: play() is called only by togglePlay, and no handler of the error,
\* play-rejection, ended, loadstart, loadedmetadata or timeupdate events
\* calls play() or load().
C8_NoAutomaticRetry ==
  [][/\ CallsNext("play") => op' = "togglePlay"
     /\ op' \in {"handleError", "playRejected", "handleEnded", "handleLoadStart",
                 "handleLoadedMetadata", "handleTimeUpdate"}
          => ~CallsNext("play") /\ ~CallsNext("load")]_vars

\* the track has ended and the element stays paused at the start
C8_Witness ==
  /\ op = "handleEnded"
  /\ called = <<>>
  /\ elPaused
  /\ pendingPlay = 0
  /\ elCurrentTime = Num(0)

\* C9: a togglePlay invoked while audioError is set calls no media control
\* and changes no state of the component or of the element.
C9_TogglePlayBlocked ==
  [][(op' = "togglePlay" /\ audioError # null) =>
       /\ called' = <<>>
       /\ appState' = appState
       /\ elState' = elState]_vars

\* togglePlay has been invoked on a playing track with an error on display
C9_Witness ==
  /\ op = "togglePlay"
  /\ audioError # null
  /\ called = <<>>
  /\ isPlaying
  /\ ~elPaused

\* C10: dismissing the error message sets audioError to null and changes
\* none of isPlaying, currentTime, duration, volume, isLoading, isFullscreen.
C10_DismissOnlyClearsError ==
  [][op' = "dismissError" =>
       /\ audioError' = null
       /\ isPlaying' = isPlaying
       /\ currentTime' = currentTime
       /\ duration' = duration
       /\ volume' = volume
       /\ isLoading' = isLoading
       /\ isFullscreen' = isFullscreen]_vars

\* an error has been dismissed while the flag shows playing, in fullscreen
C10_Witness ==
  /\ op = "dismissError"
  /\ audioError = null
  /\ isPlaying
  /\ isFullscreen

\* the steps in which the animate callback ran
AnimateOps == {"mountEffects", "intensityChanged", "animateFrame"}

\* the scene built last is still standing
LiveScene == IF sceneLive THEN sceneGen ELSE 0

\* C11: once the cleanup of a scene has run, the animate callback of that
\* scene requests no animation frame and renders nothing any more: every
\* frame request and every render comes from the scene that still stands,
\* also when a callback of the old scene was pending at the cleanup.
C11_NoFrameAfterCleanup ==
  [][(op' \in AnimateOps /\ (frame'.requested \/ frame'.rendered)) =>
       frame'.scene = LiveScene']_vars

\* the cleanup has run while a frame callback of the scene was pending, and
\* the callback is gone
C11_Witness ==
  /\ op = "unmount"
  /\ cleanupsRun = 1
  /\ pausedRef
  /\ rafRef # 0
  /\ rafQueue = {}

\* C12: over any sequence of play events, also ones that fire while an
\* earlier connectAudio waits for resume(), createMediaElementSource is
\* called at most once and at most one analyser is ever stored.
C12_AnalyserSingleton == sourceCalls <= 1 /\ analysersStored <= 1

\* a bounding rectangle with no area
ZeroSize(size) == size[1] = 0 \/ size[2] = 0

\* C13: after the scene is built, and after every window resize handled
\* while it stands with a container of non-zero size, the renderer and the
\* composer have the container's width and height and the camera's aspect
\* is width / height; a resize to zero width or zero height changes none of
\* the three.
C13_SizedToContainer ==
  [][/\ ( \/ op' \in {"mountEffects", "intensityChanged"} /\ sceneLive'
          \/ op' = "windowResize" /\ sceneLive /\ ~ZeroSize(containerSize') )
        => /\ rendererSize' = containerSize'
           /\ composerSize' = containerSize'
           /\ cameraAspect' = Rat(containerSize'[1], containerSize'[2])
     /\ (op' = "windowResize" /\ ZeroSize(containerSize'))
        => UNCHANGED <<rendererSize, composerSize, cameraAspect>>]_vars

\* the standing scene, built at 2 x 1 and resized to 1 x 2, has just handled
\* a resize to zero width
C13_Witness ==
  /\ op = "windowResize"
  /\ sceneLive
  /\ containerSize = <<0, 2>>
  /\ rendererSize = <<1, 2>>
  /\ composerSize = <<1, 2>>
  /\ cameraAspect = <<1, 2>>

\* C14: in every animation frame the analyser is polled exactly when the
\* isPlaying value last copied into isPlayingRef is true and the analyser
\* and its data array exist; in every other frame the raw bass, mid and
\* treble are 0.
C14_PolledWhilePlaying ==
  [][(op' \in AnimateOps /\ frame'.requested) =>
       /\ frame'.polled <=> (isPlayingRef' /\ analyserRef /\ dataArrayRef)
       /\ ~frame'.polled => frame'.raw = NoAudio]_vars

\* a frame has polled the analyser and found bass, with the ref still true
\* although the prop is false already
C14_Witness ==
  /\ op = "animateFrame"
  /\ frame.polled
  /\ frame.raw = <<Num(1), Num(0), Num(0)>>
  /\ isPlayingRef
  /\ ~isPlaying

\* C15: the displayed volume equals the element's volume and lies in
\* [0, 1], from the start (both 1) and across every handleVolumeChange.
C15_VolumeMirrored == volume = elVolume /\ volume \in 0..VolumeMax

\* the slider has been moved to the middle
C15_Witness ==
  /\ op = "handleVolumeChange"
  /\ volume = 50
  /\ elVolume = 50

\* C16: isFullscreen is true exactly when the container is in fullscreen,
\* whatever toggleFullscreen calls, request outcomes and exits by the
\* browser have happened.
C16_FullscreenMirrored == isFullscreen <=> docFullscreen

\* C17: handling ended sets isPlaying false and the displayed and the
\* element's currentTime to 0 and leaves duration, volume, isLoading and
\* audioError as they were, and a togglePlay that comes next calls play().
C17_EndedResets ==
  [][/\ op' = "handleEnded" =>
          /\ isPlaying' = FALSE
          /\ currentTime' = Num(0)
          /\ elCurrentTime' = Num(0)
          /\ UNCHANGED <<duration, volume, isLoading, audioError>>
     /\ (op = "handleEnded" /\ op' = "togglePlay") => CallsNext("play")]_vars

\* a track that played to its end without an error has been reset
C17_Witness ==
  /\ op = "handleEnded"
  /\ ~isPlaying
  /\ elPaused
  /\ duration = Num(MaxDuration)
  /\ currentTime = Num(0)
  /\ elCurrentTime = Num(0)
  /\ audioError = null

\* the handlers that copy the element's position into the display
PositionOps == {"handleTimeUpdate", "handleProgressBarClick", "handleEnded"}

\* C18: right after a timeupdate, a seek by a click on the progress bar or
\* an ended event has been handled, the displayed currentTime equals the
\* element's currentTime.
C18_PositionMirrored ==
  [][(op' \in PositionOps /\ (op' = "handleProgressBarClick" => duration # Num(0)))
       => currentTime' = elCurrentTime']_vars

\* a timeupdate has brought the display to the end of the track
C18_Witness ==
  /\ op = "handleTimeUpdate"
  /\ currentTime = Num(MaxDuration)
  /\ elCurrentTime = Num(MaxDuration)

\* C19: a change of the isPlaying prop never tears the scene down or builds
\* it again: over every step that changes the prop or copies it into
\* isPlayingRef, the renderers created, the cleanups run and the standing
\* scene stay as they were, and the frame queue is left alone.
C19_SceneSurvivesToggle ==
  [][(isPlaying' # isPlaying \/ op' = "syncIsPlaying") =>
       UNCHANGED <<renderersCreated, cleanupsRun, sceneGen, sceneLive,
                   rafQueue, canvases>>]_vars

\* the prop went true and back to false and was copied each time, over the
\* one scene built at mount
C19_Witness ==
  /\ op = "syncIsPlaying"
  /\ ~isPlayingRef
  /\ sceneLive
  /\ renderersCreated = 1
  /\ cleanupsRun = 0

\* C20: whenever a scene stands (the effect has finished building it and has
\* not torn it down since), its animation loop runs: exactly one frame
\* request is pending, also after a teardown and rebuild caused by a change
\* of intensity.
C20_LoopRuns == sceneLive => Cardinality(rafQueue) = 1

\* C25: the play / pause button is disabled exactly while an error is shown
\* or loading is in progress, so no step taken in such a state calls play()
\* or pause().
C25_NoControlWhileDisabled ==
  [][(audioError # null \/ isLoading) =>
       (~CallsNext("play") /\ ~CallsNext("pause"))]_vars

\* loading began after the user had started the track: the flag says
\* playing, the button is disabled
C25_Witness ==
  /\ op = "handleLoadStart"
  /\ isLoading
  /\ audioError = null
  /\ isPlaying
  /\ PlayButtonDisabled
\* C26: isLoading is false at the start, is true after every loadstart, and
\* goes from true to false only when an error event is handled or a
\* loadedmetadata event finds a duration that is not NaN; no other handler
\* changes it.
C26_LoadingFlag ==
  /\ ~isLoading
  /\ [][/\ op' = "handleLoadStart" => isLoading'
        /\ (~isLoading /\ isLoading') => op' = "handleLoadStart"
        /\ (isLoading /\ ~isLoading') =>
             \/ op' = "handleError"
             \/ op' = "handleLoadedMetadata" /\ ~NumberIsNaN(elDuration')]_vars

\* a loadedmetadata event with a NaN duration has left the flag up
C26_Witness ==
  /\ op = "handleLoadedMetadata"
  /\ NumberIsNaN(elDuration)
  /\ isLoading
  /\ audioError = null

\* C27: audioError goes from null to a message only when handleError runs
\* or the catch of a rejected play() runs, and from a message to null only
\* when the user dismisses it or a loadedmetadata event finds a duration
\* that is not NaN.
C27_ErrorTransitions ==
  [][/\ (audioError = null /\ audioError' # null) =>
          op' \in {"handleError", "playRejected"}
     /\ (audioError # null /\ audioError' = null) =>
          \/ op' = "dismissError"
          \/ op' = "handleLoadedMetadata" /\ ~NumberIsNaN(elDuration')]_vars

\* a loadedmetadata event has been handled after a play() was rejected, and
\* no message is shown
C27_Witness ==
  /\ op = "handleLoadedMetadata"
  /\ audioError = null
  /\ ~isLoading
  /\ isPlaying
  /\ elPaused
  /\ pendingPlay = 0
  /\ rejections = <<>>
\* the bins of data that lie in [from, to)
Band(data, from, to) == {i \in DOMAIN data : from <= i /\ i < to}

\* the sum of the bins of data named by the set band
RECURSIVE BandSum(_, _)
BandSum(data, band) ==
  IF band = {} THEN 0
  ELSE LET i == CHOOSE j \in band : TRUE
       IN data[i] + BandSum(data, band \ {i})

\* the mean of a band of data, as a fraction of the largest byte
BandLevel(data, band) == Rat(BandSum(data, band), Cardinality(band) * ByteMax)

\* a number in [0, 1]
InUnit(x) == ~IsNaN(x) /\ 0 <= x[1] /\ x[1] <= x[2]

\* C21: the bass, mid and treble that analyzeAudio returns are the means of
\* bins [0, 8), [8, 40) and [40, 100) of the data array, each divided by
\* 255: the divisors 8, 32 and 60 are the numbers of bins of the bands, every
\* bin of a band lies inside the 256 bins that fftSize 512 gives, and each
\* result lies in [0, 1].
C21_BandMeans ==
  [][(op' \in AnimateOps /\ frame'.polled) =>
       LET data == frame'.data
       IN /\ DOMAIN data = 0..255
          /\ Cardinality(Band(data, 0, 8)) = 8
          /\ Cardinality(Band(data, 8, 40)) = 32
          /\ Cardinality(Band(data, 40, 100)) = 60
          /\ frame'.raw = << BandLevel(data, Band(data, 0, 8)),
                             BandLevel(data, Band(data, 8, 40)),
                             BandLevel(data, Band(data, 40, 100)) >>
          /\ \A k \in 1..3 : InUnit(frame'.raw[k])]_vars

\* a frame has polled the ramp: bass 28 / 2040, mid 752 / 8160 and treble
\* 4170 / 15300
C21_Witness ==
  /\ op = "animateFrame"
  /\ frame.polled
  /\ frame.data[99] = 99
  /\ frame.raw = << <<7, 510>>, <<47, 510>>, <<139, 510>> >>
\* x <= y for two numbers, compared over their least common denominator
RatLeq(x, y) ==
  /\ ~IsNaN(x)
  /\ ~IsNaN(y)
  /\ LET g == GCD(x[2], y[2])
     IN x[1] * (y[2] \div g) <= y[1] * (x[2] \div g)

\* the smoothed levels, each in [0, 1]
SmoothInUnit == \A k \in 1..3 : InUnit(smoothAudioRef[k])

\* C22: the smoothed bass, mid and treble start at 0, lie in [0, 1] after
\* every animation frame, and in a frame that runs while isPlaying is false
\* none of them increases.
C22_SmoothedLevels ==
  /\ smoothAudioRef = NoAudio
  /\ [][(op' \in AnimateOps /\ frame'.requested) =>
          /\ SmoothInUnit'
          /\ ~isPlaying =>
               \A k \in 1..3 : RatLeq(smoothAudioRef'[k], smoothAudioRef[k])]_vars

\* C22 for the value the loop reads: in a frame that runs while
\* isPlayingRef.current is false each level moves toward 0, bass to 0.9,
\* mid to 0.92 and treble to 0.95 of what it was.
C22_SmoothedLevelsByRef ==
  /\ smoothAudioRef = NoAudio
  /\ [][(op' \in AnimateOps /\ frame'.requested) =>
          /\ SmoothInUnit'
          /\ ~isPlayingRef' =>
               /\ \A k \in 1..3 : RatLeq(smoothAudioRef'[k], smoothAudioRef[k])
               /\ smoothAudioRef' = << RatMul(Rat(9, 10), smoothAudioRef[1]),
                                       RatMul(Rat(23, 25), smoothAudioRef[2]),
                                       RatMul(Rat(19, 20), smoothAudioRef[3]) >>]_vars

\* one frame polled full bass while the track played, the next ran with
\* the ref false: the smoothed bass went 0, 1/10, 9/100
C22_Witness ==
  /\ op = "animateFrame"
  /\ ~isPlayingRef
  /\ ~isPlaying
  /\ ~frame.polled
  /\ smoothAudioRef = << <<9, 100>>, Num(0), Num(0) >>
\* a step in which a connectAudio call that had passed its guard ended in
\* its catch: the context could not be created, resume() was rejected, or
\* createMediaElementSource threw
ConnectFailed ==
  \/ /\ op' = "resumeSettled"
     /\ analysersStored' = analysersStored
  \/ /\ op' = "audioPlayEvent"
     /\ ~analyserRef
     /\ connecting' = connecting
     /\ analysersStored' = analysersStored

\* C23: a connectAudio that fails at any step is caught and leaves
\* analyserRef and dataArrayRef null, the loop goes on rendering frames
\* with raw levels 0, and in every state analyserRef is set exactly when
\* dataArrayRef is.
C23_ConnectFailureContained ==
  /\ [](analyserRef <=> dataArrayRef)
  /\ [][/\ ConnectFailed => (~analyserRef' /\ ~dataArrayRef')
        /\ (op' = "animateFrame" /\ ~pausedRef /\ ~analyserRef) =>
             (frame'.rendered /\ frame'.raw = NoAudio)]_vars
\* a run of the scene effect that returned before building a scene
InitAborted == op' \in {"mountEffects", "intensityChanged"} /\ ~sceneLive'

\* C24: a scene initialisation that aborts, for want of a WebGL context or
\* of a container with an area, creates no renderer and no canvas, registers
\* no resize listener, requests no frame and leaves ready as it was; when
\* WebGL is missing isWebGLSupported becomes false and the fallback message
\* is shown.
C24_AbortedInit ==
  [][InitAborted =>
       /\ renderersCreated' = renderersCreated
       /\ canvases' <= canvases
       /\ resizeListeners' <= resizeListeners
       /\ ~frame'.requested
       /\ rafQueue' \subseteq rafQueue
       /\ ready' = ready
       /\ ~isWebGLSupported' => fallbackShown']_vars

\* C28: whatever runs and cleanups of the scene effect have happened, the
\* container holds at most one canvas and window at most one resize
\* listener of the component, and when no scene stands (after the last
\* cleanup) the container holds no canvas and no listener is left.
C28_OneCanvasOneListener ==
  /\ canvases <= 1
  /\ resizeListeners <= 1
  /\ ~sceneLive => (canvases = 0 /\ resizeListeners = 0)
====
